---- MODULE Spec2Model ----
(***************************************************************************)
(* A model of package openapi2 (src/openapi2/openapi2.go).                 *)
(*                                                                         *)
(* Part 1: the document's path collection and the verb dispatch table of   *)
(*         a PathItem (AddOperation, Operations, GetOperation,             *)
(*         SetOperation).                                                  *)
(* Part 2: the extensible record SecurityScheme and the EncodeWith /       *)
(*         DecodeWith pair of ExtensionProps.                              *)
(*                                                                         *)
(* Pointers to Operation are opaque identities ("opA", "opB"; NilOp is the *)
(* nil pointer).  A *PathItem stored in Swagger.Paths is identified with   *)
(* the key it is stored under: AddOperation allocates one PathItem per     *)
(* key, and a decoder allocates one per member.                            *)
(***************************************************************************)
EXTENDS Integers, Sequences, FiniteSets, Bags, TLC

VARIABLES
    swagger,   \* the Swagger document: its Paths map (nil or a map)
    pre,       \* the document as it was when the last call started
    last,      \* the last call on the document: arguments and outcome
    ss,        \* a SecurityScheme: its fixed fields and its Extensions
    ssPre,     \* the SecurityScheme as it was when the last call started
    wire,      \* the object last produced by MarshalJSON, and its source
    clast,     \* the last call on the SecurityScheme: input and outcome
    calls      \* number of calls made so far

docVars == <<swagger, pre, last>>
codecVars == <<ss, ssPre, wire, clast>>
vars == <<swagger, pre, last, ss, ssPre, wire, clast, calls>>

(***************************************************************************)
(* Bounds of the model.                                                    *)
(***************************************************************************)
MaxCalls == 2

\* path strings used as map keys
PathNames == {"/users", "/pets"}

\* Operation instances (pointer identities) and the nil pointer
NilOp == "nil"
OperationInstances == {"opA", "opB"}
OpPtrs == OperationInstances \cup {NilOp}

\* the method strings callers pass: the seven supported ones and two others
Verbs == {"DELETE", "GET", "HEAD", "OPTIONS", "PATCH", "POST", "PUT"}
OtherMethods == {"TRACE", "get"}
Methods == Verbs \cup OtherMethods

(***************************************************************************)
(* type PathItem struct                                                    *)
(***************************************************************************)
ZeroPathItem ==
    [Ref |-> "", Delete |-> NilOp, Get |-> NilOp, Head |-> NilOp,
     Options |-> NilOp, Patch |-> NilOp, Post |-> NilOp, Put |-> NilOp,
     Parameters |-> <<>>]

\* the zero value of Swagger, as far as AddOperation reads it: Paths == nil
ZeroSwagger == [PathsNil |-> TRUE, Paths |-> [p \in {} |-> ZeroPathItem]]

\* make(map[string]*PathItem, 8)
MakePaths == [p \in {} |-> ZeroPathItem]

\* m[k] = v on a Go map
MapPut(m, k, v) == [x \in (DOMAIN m) \cup {k} |-> IF x = k THEN v ELSE m[x]]

\* Mutant of Operations: the last statement stores Put under the key "POST".
Operations_PutUnderPost(pathItem) ==
    LET m0 == [k \in {} |-> NilOp]
        m1 == IF pathItem.Delete # NilOp THEN MapPut(m0, "DELETE", pathItem.Delete) ELSE m0
        m2 == IF pathItem.Get # NilOp THEN MapPut(m1, "GET", pathItem.Get) ELSE m1
        m3 == IF pathItem.Head # NilOp THEN MapPut(m2, "HEAD", pathItem.Head) ELSE m2
        m4 == IF pathItem.Options # NilOp THEN MapPut(m3, "OPTIONS", pathItem.Options) ELSE m3
        m5 == IF pathItem.Patch # NilOp THEN MapPut(m4, "PATCH", pathItem.Patch) ELSE m4
        m6 == IF pathItem.Post # NilOp THEN MapPut(m5, "POST", pathItem.Post) ELSE m5
        m7 == IF pathItem.Put # NilOp THEN MapPut(m6, "POST", pathItem.Put) ELSE m6
    IN  m7

(***************************************************************************)
(* func (pathItem *PathItem) Operations() map[string]*Operation            *)
(***************************************************************************)
Operations(pathItem) ==
    LET m0 == [k \in {} |-> NilOp]
        m1 == IF pathItem.Delete # NilOp THEN MapPut(m0, "DELETE", pathItem.Delete) ELSE m0
        m2 == IF pathItem.Get # NilOp THEN MapPut(m1, "GET", pathItem.Get) ELSE m1
        m3 == IF pathItem.Head # NilOp THEN MapPut(m2, "HEAD", pathItem.Head) ELSE m2
        m4 == IF pathItem.Options # NilOp THEN MapPut(m3, "OPTIONS", pathItem.Options) ELSE m3
        m5 == IF pathItem.Patch # NilOp THEN MapPut(m4, "PATCH", pathItem.Patch) ELSE m4
        m6 == IF pathItem.Post # NilOp THEN MapPut(m5, "POST", pathItem.Post) ELSE m5
        m7 == IF pathItem.Put # NilOp THEN MapPut(m6, "PUT", pathItem.Put) ELSE m6
    IN  m7

(***************************************************************************)
(* func (pathItem *PathItem) GetOperation(method string) *Operation        *)
(* The result is the returned pointer and whether the call panicked.       *)
(***************************************************************************)
GetOperation(pathItem, method) ==
    CASE method = "DELETE"  -> [ret |-> pathItem.Delete, panicked |-> FALSE]
      [] method = "GET"     -> [ret |-> pathItem.Get, panicked |-> FALSE]
      [] method = "HEAD"    -> [ret |-> pathItem.Head, panicked |-> FALSE]
      [] method = "OPTIONS" -> [ret |-> pathItem.Options, panicked |-> FALSE]
      [] method = "PATCH"   -> [ret |-> pathItem.Patch, panicked |-> FALSE]
      [] method = "POST"    -> [ret |-> pathItem.Post, panicked |-> FALSE]
      [] method = "PUT"     -> [ret |-> pathItem.Put, panicked |-> FALSE]
      [] OTHER              -> [ret |-> NilOp, panicked |-> TRUE]

\* Mutant of SetOperation: the case "PATCH" assigns pathItem.Post.
SetOperation_PatchWritesPost(pathItem, method, operation) ==
    CASE method = "DELETE"  -> [item |-> [pathItem EXCEPT !.Delete = operation], panicked |-> FALSE]
      [] method = "GET"     -> [item |-> [pathItem EXCEPT !.Get = operation], panicked |-> FALSE]
      [] method = "HEAD"    -> [item |-> [pathItem EXCEPT !.Head = operation], panicked |-> FALSE]
      [] method = "OPTIONS" -> [item |-> [pathItem EXCEPT !.Options = operation], panicked |-> FALSE]
      [] method = "PATCH"   -> [item |-> [pathItem EXCEPT !.Post = operation], panicked |-> FALSE]
      [] method = "POST"    -> [item |-> [pathItem EXCEPT !.Post = operation], panicked |-> FALSE]
      [] method = "PUT"     -> [item |-> [pathItem EXCEPT !.Put = operation], panicked |-> FALSE]
      [] OTHER              -> [item |-> pathItem, panicked |-> TRUE]

\* Mutant of SetOperation: the case "POST" also assigns pathItem.Put.
SetOperation_PostAlsoWritesPut(pathItem, method, operation) ==
    CASE method = "DELETE"  -> [item |-> [pathItem EXCEPT !.Delete = operation], panicked |-> FALSE]
      [] method = "GET"     -> [item |-> [pathItem EXCEPT !.Get = operation], panicked |-> FALSE]
      [] method = "HEAD"    -> [item |-> [pathItem EXCEPT !.Head = operation], panicked |-> FALSE]
      [] method = "OPTIONS" -> [item |-> [pathItem EXCEPT !.Options = operation], panicked |-> FALSE]
      [] method = "PATCH"   -> [item |-> [pathItem EXCEPT !.Patch = operation], panicked |-> FALSE]
      [] method = "POST"    -> [item |-> [pathItem EXCEPT !.Post = operation, !.Put = operation],
                                panicked |-> FALSE]
      [] method = "PUT"     -> [item |-> [pathItem EXCEPT !.Put = operation], panicked |-> FALSE]
      [] OTHER              -> [item |-> pathItem, panicked |-> TRUE]

\* Mutant of SetOperation: the default case returns instead of panicking.
SetOperation_SilentDefault(pathItem, method, operation) ==
    CASE method = "DELETE"  -> [item |-> [pathItem EXCEPT !.Delete = operation], panicked |-> FALSE]
      [] method = "GET"     -> [item |-> [pathItem EXCEPT !.Get = operation], panicked |-> FALSE]
      [] method = "HEAD"    -> [item |-> [pathItem EXCEPT !.Head = operation], panicked |-> FALSE]
      [] method = "OPTIONS" -> [item |-> [pathItem EXCEPT !.Options = operation], panicked |-> FALSE]
      [] method = "PATCH"   -> [item |-> [pathItem EXCEPT !.Patch = operation], panicked |-> FALSE]
      [] method = "POST"    -> [item |-> [pathItem EXCEPT !.Post = operation], panicked |-> FALSE]
      [] method = "PUT"     -> [item |-> [pathItem EXCEPT !.Put = operation], panicked |-> FALSE]
      [] OTHER              -> [item |-> pathItem, panicked |-> FALSE]

(***************************************************************************)
(* func (pathItem *PathItem) SetOperation(method string, operation)        *)
(* The result is the PathItem after the call and whether it panicked.      *)
(***************************************************************************)
SetOperation(pathItem, method, operation) ==
    CASE method = "DELETE"  -> [item |-> [pathItem EXCEPT !.Delete = operation], panicked |-> FALSE]
      [] method = "GET"     -> [item |-> [pathItem EXCEPT !.Get = operation], panicked |-> FALSE]
      [] method = "HEAD"    -> [item |-> [pathItem EXCEPT !.Head = operation], panicked |-> FALSE]
      [] method = "OPTIONS" -> [item |-> [pathItem EXCEPT !.Options = operation], panicked |-> FALSE]
      [] method = "PATCH"   -> [item |-> [pathItem EXCEPT !.Patch = operation], panicked |-> FALSE]
      [] method = "POST"    -> [item |-> [pathItem EXCEPT !.Post = operation], panicked |-> FALSE]
      [] method = "PUT"     -> [item |-> [pathItem EXCEPT !.Put = operation], panicked |-> FALSE]
      [] OTHER              -> [item |-> pathItem, panicked |-> TRUE]

\* Mutant of AddOperation: the PathItem is allocated anew on every call.
AddOperation_AlwaysNewItem(sw, path, method, operation) ==
    LET paths    == IF sw.PathsNil THEN [p \in {} |-> ZeroPathItem] ELSE sw.Paths
        set      == SetOperation(ZeroPathItem, method, operation)
    IN  [swagger  |-> [PathsNil |-> FALSE, Paths |-> MapPut(paths, path, set.item)],
         panicked |-> set.panicked]

\* Mutant of AddOperation: SetOperation is called only on a PathItem the call
\* has just allocated.
AddOperation_SetOnlyWhenNew(sw, path, method, operation) ==
    LET paths    == IF sw.PathsNil THEN [p \in {} |-> ZeroPathItem] ELSE sw.Paths
        set      == SetOperation(ZeroPathItem, method, operation)
    IN  IF path \in DOMAIN paths
        THEN [swagger |-> [PathsNil |-> FALSE, Paths |-> paths], panicked |-> FALSE]
        ELSE [swagger |-> [PathsNil |-> FALSE, Paths |-> MapPut(paths, path, set.item)],
              panicked |-> set.panicked]

\* Mutant of AddOperation: the method is checked before the document is touched.
AddOperation_CheckMethodFirst(sw, path, method, operation) ==
    LET paths    == IF sw.PathsNil THEN [p \in {} |-> ZeroPathItem] ELSE sw.Paths
        pathItem == IF path \in DOMAIN paths THEN paths[path] ELSE ZeroPathItem
        set      == SetOperation(pathItem, method, operation)
    IN  IF set.panicked
        THEN [swagger |-> sw, panicked |-> TRUE]
        ELSE [swagger |-> [PathsNil |-> FALSE, Paths |-> MapPut(paths, path, set.item)],
              panicked |-> FALSE]

(***************************************************************************)
(* func (swagger *Swagger) AddOperation(path, method string, operation)    *)
(* The result is the document after the call and whether it panicked.      *)
(* paths[path] is nil exactly when the map has no entry for path; the      *)
(* PathItem is ensured in the map before SetOperation runs on it.          *)
(***************************************************************************)
AddOperation(sw, path, method, operation) ==
    LET paths    == IF sw.PathsNil THEN MakePaths ELSE sw.Paths
        pathItem == IF path \in DOMAIN paths THEN paths[path] ELSE ZeroPathItem
        paths2   == MapPut(paths, path, pathItem)
        set      == SetOperation(pathItem, method, operation)
    IN  [swagger  |-> [PathsNil |-> FALSE, Paths |-> MapPut(paths2, path, set.item)],
         panicked |-> set.panicked]

(***************************************************************************)
(* Part 2.  type SecurityScheme struct: the embedded ExtensionProps and    *)
(* the fixed fields with their wire names (all of them omitempty).  A      *)
(* field's value is its payload; "" is the empty value of its type (the    *)
(* empty string, the nil map, the nil slice).                              *)
(***************************************************************************)
FixedFields ==
    << [name |-> "Ref",              wire |-> "$ref",             kind |-> "string"],
       [name |-> "Description",      wire |-> "description",      kind |-> "string"],
       [name |-> "Type",             wire |-> "type",             kind |-> "string"],
       [name |-> "In",               wire |-> "in",               kind |-> "string"],
       [name |-> "Name",             wire |-> "name",             kind |-> "string"],
       [name |-> "Flow",             wire |-> "flow",             kind |-> "string"],
       [name |-> "AuthorizationURL", wire |-> "authorizationUrl", kind |-> "string"],
       [name |-> "TokenURL",         wire |-> "tokenUrl",         kind |-> "string"],
       [name |-> "Scopes",           wire |-> "scopes",           kind |-> "object"],
       [name |-> "Tags",             wire |-> "tags",             kind |-> "array"] >>

WireNames == {FixedFields[i].wire : i \in DOMAIN FixedFields}

\* type ExtensionProps struct { Extensions map[string]interface{} }:
\* the nil map, or a map from member name to a Go value
NoMembers == [k \in {} |-> [go |-> "nil", v |-> ""]]
NilExtensions == [isNil |-> TRUE, m |-> NoMembers]
MakeExtensions(m) == [isNil |-> FALSE, m |-> m]

ZeroSecurityScheme ==
    [Extensions |-> NilExtensions,
     Ref |-> "", Description |-> "", Type |-> "", In |-> "", Name |-> "",
     Flow |-> "", AuthorizationURL |-> "", TokenURL |-> "", Scopes |-> "",
     Tags |-> ""]

\* Go values held in an interface{}; a func value has no encoding
GoString(s) == [go |-> "string", v |-> s]
GoNumber(n) == [go |-> "number", v |-> n]
GoFunc == [go |-> "func", v |-> ""]

\* values of the object notation
JSONString(s) == [json |-> "string", text |-> s]
JSONNumber(n) == [json |-> "number", text |-> n]

(***************************************************************************)
(* The primitive encoder and decoder of values (package encoding/json).    *)
(***************************************************************************)
EncodeValue(value) ==
    IF value.go = "func"
    THEN [err |-> TRUE, json |-> [json |-> "null", text |-> ""]]
    ELSE [err |-> FALSE,
          json |-> IF value.go = "nil" THEN [json |-> "null", text |-> ""]
                   ELSE [json |-> value.go, text |-> value.v]]

DecodeGeneric(j) ==
    IF j.json = "null" THEN [go |-> "nil", v |-> ""]
    ELSE [go |-> j.json, v |-> j.text]

(***************************************************************************)
(* jsoninfo.ObjectEncoder: the members written so far, as a bag of         *)
(* <<key, value>> (a key written twice is in it twice).                    *)
(***************************************************************************)
NewObjectEncoder == [result |-> EmptyBag]

EncodeExtension(encoder, key, value) ==
    LET e == EncodeValue(value)
    IN  IF e.err THEN [err |-> TRUE, encoder |-> encoder]
        ELSE [err |-> FALSE,
              encoder |-> [result |-> encoder.result (+) SetToBag({<<key, e.json>>})]]

RECURSIVE EncodeFields(_, _, _)
EncodeFields(i, encoder, value) ==
    IF i > Len(FixedFields) THEN encoder
    ELSE LET f == FixedFields[i]
         IN  IF value[f.name] = ""
             THEN EncodeFields(i + 1, encoder, value)
             ELSE EncodeFields(i + 1,
                     [result |-> encoder.result (+)
                        SetToBag({<<f.wire, [json |-> f.kind, text |-> value[f.name]]>>})],
                     value)

EncodeStructFieldsAndExtensions(encoder, value) ==
    [err |-> FALSE, encoder |-> EncodeFields(1, encoder, value)]

\* Mutant of EncodeWith: the loop over the extension members is missing.
EncodeWith_FieldsOnly(props, encoder, value) ==
    EncodeStructFieldsAndExtensions(encoder, value)

(***************************************************************************)
(* func (props *ExtensionProps) EncodeWith(encoder, value) error           *)
(* The range over the map visits the members in an unspecified order; the  *)
(* encoder is only read when no member failed.                             *)
(***************************************************************************)
RECURSIVE EncodeExtensions(_, _, _)
EncodeExtensions(m, keys, encoder) ==
    IF keys = {} THEN [err |-> FALSE, encoder |-> encoder]
    ELSE LET k == CHOOSE x \in keys : TRUE
             r == EncodeExtension(encoder, k, m[k])
         IN  IF r.err THEN r ELSE EncodeExtensions(m, keys \ {k}, r.encoder)

EncodeWith(props, encoder, value) ==
    LET r == EncodeExtensions(props.m, DOMAIN props.m, encoder)
    IN  IF r.err THEN r ELSE EncodeStructFieldsAndExtensions(r.encoder, value)

\* jsoninfo.MarshalStrictStruct(value), called by MarshalJSON
MarshalStrictStruct(value) ==
    LET r == EncodeWith(value.Extensions, NewObjectEncoder, value)
    IN  [err |-> r.err, members |-> IF r.err THEN EmptyBag ELSE r.encoder.result]

MarshalJSON(value) == MarshalStrictStruct(value)

(***************************************************************************)
(* jsoninfo.ObjectDecoder: the parsed object and the keys not consumed     *)
(* by a fixed field.                                                       *)
(***************************************************************************)
NewObjectDecoder(obj) == [obj |-> obj, remaining |-> DOMAIN obj]

RECURSIVE DecodeFields(_, _, _)
DecodeFields(i, decoder, value) ==
    IF i > Len(FixedFields) THEN [err |-> FALSE, decoder |-> decoder, value |-> value]
    ELSE LET f == FixedFields[i]
         IN  IF f.wire \notin decoder.remaining
             THEN DecodeFields(i + 1, decoder, value)
             ELSE IF decoder.obj[f.wire].json # f.kind
             THEN [err |-> TRUE, decoder |-> decoder, value |-> value]
             ELSE DecodeFields(i + 1,
                     [decoder EXCEPT !.remaining = @ \ {f.wire}],
                     [value EXCEPT ![f.name] = decoder.obj[f.wire].text])

DecodeStructFieldsAndExtensions(decoder, value) == DecodeFields(1, decoder, value)

DecodeExtensionMap(decoder) ==
    [k \in decoder.remaining |-> DecodeGeneric(decoder.obj[k])]

\* Mutant of DecodeWith: the leftover members are stored into the map the
\* record already has (a new one only when it is nil).
DecodeWith_MergeIntoOld(props, decoder, value) ==
    LET r == DecodeStructFieldsAndExtensions(decoder, value)
    IN  IF r.err
        THEN [err |-> TRUE, value |-> [r.value EXCEPT !.Extensions = props]]
        ELSE LET source == DecodeExtensionMap(r.decoder)
                 result == [k \in (DOMAIN props.m) \cup (DOMAIN source) |->
                               IF k \in DOMAIN source THEN source[k] ELSE props.m[k]]
             IN  [err |-> FALSE,
                  value |-> [r.value EXCEPT !.Extensions = MakeExtensions(result)]]

\* Mutant of DecodeWith: Extensions is assigned before the error is looked at.
DecodeWith_AssignBeforeCheck(props, decoder, value) ==
    LET r == DecodeStructFieldsAndExtensions(decoder, value)
        source == DecodeExtensionMap(r.decoder)
        result == [k \in DOMAIN source |-> source[k]]
    IN  [err |-> r.err,
         value |-> [r.value EXCEPT !.Extensions = MakeExtensions(result)]]

(***************************************************************************)
(* func (props *ExtensionProps) DecodeWith(decoder, value) error           *)
(* The result is the error and the record (its fixed fields as the decoder *)
(* left them, its Extensions as DecodeWith left them).                     *)
(***************************************************************************)
DecodeWith(props, decoder, value) ==
    LET r == DecodeStructFieldsAndExtensions(decoder, value)
    IN  IF r.err
        THEN [err |-> TRUE, value |-> [r.value EXCEPT !.Extensions = props]]
        ELSE LET source == DecodeExtensionMap(r.decoder)
                 result == [k \in DOMAIN source |-> source[k]]
             IN  [err |-> FALSE,
                  value |-> [r.value EXCEPT !.Extensions = MakeExtensions(result)]]

\* jsoninfo.UnmarshalStrictStruct(data, value), called by UnmarshalJSON:
\* text that is no object is refused before DecodeWith is called
UnmarshalStrictStruct(data, value) ==
    IF ~data.wellFormed THEN [err |-> TRUE, value |-> value]
    ELSE DecodeWith(value.Extensions, NewObjectDecoder(data.obj), value)

UnmarshalJSON(value, data) == UnmarshalStrictStruct(data, value)

\* the objects a parser may read from the members MarshalJSON wrote:
\* every key once, with one of the values written for it
KeysOf(members) == {e[1] : e \in BagToSet(members)}
ParsedObjects(members) ==
    {obj \in [KeysOf(members) -> {e[2] : e \in BagToSet(members)}] :
        \A k \in KeysOf(members) : <<k, obj[k]>> \in BagToSet(members)}

(***************************************************************************)
(* The calls a client makes on the document.                               *)
(***************************************************************************)
NoCall ==
    [op |-> "none", path |-> "", method |-> "", operation |-> NilOp,
     panicked |-> FALSE, ret |-> NilOp, all |-> [k \in {} |-> NilOp]]

AddOperationCall(path, method, operation) ==
    /\ calls < MaxCalls
    /\ LET r == AddOperation(swagger, path, method, operation)
       IN  /\ swagger' = r.swagger
           /\ last' = [NoCall EXCEPT !.op = "AddOperation", !.path = path,
                          !.method = method, !.operation = operation,
                          !.panicked = r.panicked]
    /\ pre' = swagger
    /\ calls' = calls + 1
    /\ UNCHANGED codecVars

\* pathItem := swagger.Paths[path]; pathItem.SetOperation(method, operation)
SetOperationCall(path, method, operation) ==
    /\ calls < MaxCalls
    /\ ~swagger.PathsNil
    /\ path \in DOMAIN swagger.Paths
    /\ LET r == SetOperation(swagger.Paths[path], method, operation)
       IN  /\ swagger' = [swagger EXCEPT !.Paths[path] = r.item]
           /\ last' = [NoCall EXCEPT !.op = "SetOperation", !.path = path,
                          !.method = method, !.operation = operation,
                          !.panicked = r.panicked]
    /\ pre' = swagger
    /\ calls' = calls + 1
    /\ UNCHANGED codecVars

\* swagger.Paths[path].GetOperation(method)
GetOperationCall(path, method) ==
    /\ calls < MaxCalls
    /\ ~swagger.PathsNil
    /\ path \in DOMAIN swagger.Paths
    /\ LET r == GetOperation(swagger.Paths[path], method)
       IN  last' = [NoCall EXCEPT !.op = "GetOperation", !.path = path,
                       !.method = method, !.panicked = r.panicked,
                       !.ret = r.ret]
    /\ pre' = swagger
    /\ calls' = calls + 1
    /\ UNCHANGED <<swagger, codecVars>>

\* swagger.Paths[path].Operations()
OperationsCall(path) ==
    /\ calls < MaxCalls
    /\ ~swagger.PathsNil
    /\ path \in DOMAIN swagger.Paths
    /\ last' = [NoCall EXCEPT !.op = "Operations", !.path = path,
                   !.all = Operations(swagger.Paths[path])]
    /\ pre' = swagger
    /\ calls' = calls + 1
    /\ UNCHANGED <<swagger, codecVars>>

(***************************************************************************)
(* The calls a client makes on the SecurityScheme.                         *)
(***************************************************************************)
NoData == [wellFormed |-> FALSE, obj |-> [k \in {} |-> JSONString("")]]
NoWire == [valid |-> FALSE, members |-> EmptyBag, of |-> ZeroSecurityScheme]
NoCodecCall == [op |-> "none", err |-> FALSE, fromWire |-> FALSE, data |-> NoData]

\* ss.Extensions = m: the field is exported, the client assigns it
SetExtensionsCall(ext) ==
    /\ calls < MaxCalls
    /\ ss' = [ss EXCEPT !.Extensions = ext]
    /\ clast' = [NoCodecCall EXCEPT !.op = "SetExtensions"]
    /\ ssPre' = ss
    /\ calls' = calls + 1
    /\ UNCHANGED <<wire, docVars>>

\* ss.MarshalJSON(): the object is kept when the call reports no error
MarshalJSONCall ==
    /\ calls < MaxCalls
    /\ LET r == MarshalJSON(ss)
       IN  /\ wire' = IF r.err THEN wire
                      ELSE [valid |-> TRUE, members |-> r.members, of |-> ss]
           /\ clast' = [NoCodecCall EXCEPT !.op = "MarshalJSON", !.err = r.err]
    /\ ssPre' = ss
    /\ calls' = calls + 1
    /\ UNCHANGED <<ss, docVars>>

\* the receiver of UnmarshalJSON: the record at hand, or a new(SecurityScheme)
Receivers == {ss, ZeroSecurityScheme}

UnmarshalJSONStep(receiver, data, fromWire) ==
    /\ LET r == UnmarshalJSON(receiver, data)
       IN  /\ ss' = r.value
           /\ clast' = [op |-> "UnmarshalJSON", err |-> r.err,
                        fromWire |-> fromWire, data |-> data]
    /\ ssPre' = receiver
    /\ calls' = calls + 1
    /\ UNCHANGED <<wire, docVars>>

\* receiver.UnmarshalJSON(data) on the object MarshalJSON produced
UnmarshalJSONWire ==
    /\ calls < MaxCalls
    /\ wire.valid
    /\ \E receiver \in Receivers, obj \in ParsedObjects(wire.members) :
          UnmarshalJSONStep(receiver, [wellFormed |-> TRUE, obj |-> obj], TRUE)

\* receiver.UnmarshalJSON(data) on a text from elsewhere
UnmarshalJSONData(data) ==
    /\ calls < MaxCalls
    /\ \E receiver \in Receivers : UnmarshalJSONStep(receiver, data, FALSE)

(***************************************************************************)
(* Documents a client starts from: the zero Swagger (Paths == nil), or a   *)
(* document whose Paths hold, per key, an entry without operations, an     *)
(* entry with a reference and shared parameters, or an entry that also     *)
(* holds one operation.  No Operation instance is held twice.              *)
(***************************************************************************)
RefItem == [ZeroPathItem EXCEPT !.Ref = "#/paths/x", !.Parameters = <<"limit">>]

InitItems(path) ==
    {ZeroPathItem, RefItem,
     IF path = "/users" THEN [RefItem EXCEPT !.Get = "opA"]
                        ELSE [RefItem EXCEPT !.Post = "opB"]}

InitDocs ==
    {ZeroSwagger} \cup
    UNION {{[PathsNil |-> FALSE, Paths |-> m] :
               m \in {f \in [S -> UNION {InitItems(p) : p \in S}] :
                          \A p \in S : f[p] \in InitItems(p)}} :
              S \in SUBSET PathNames}

(***************************************************************************)
(* Records a client starts from, and the inputs it passes.                 *)
(***************************************************************************)
\* extension members a client assigns: two names with the x- prefix and one
\* that is the wire name of the fixed field Type
ExtensionValues(key) ==
    CASE key = "x-token" -> {GoString("abc"), GoFunc}
      [] key = "x-limit" -> {GoNumber("7")}
      [] key = "type"    -> {GoString("basic"), GoNumber("7")}

ExtensionKeys == {"x-token", "x-limit", "type"}

ExtensionMaps ==
    {NilExtensions} \cup
    UNION {{MakeExtensions(m) :
               m \in {f \in [S -> UNION {ExtensionValues(k) : k \in S}] :
                          \A k \in S : f[k] \in ExtensionValues(k)}} :
              S \in SUBSET ExtensionKeys}

InitFields ==
    {ZeroSecurityScheme,
     [ZeroSecurityScheme EXCEPT !.Type = "apiKey", !.In = "header", !.Name = "X-Key"],
     [ZeroSecurityScheme EXCEPT !.Type = "oauth2", !.Scopes = "{read}", !.Tags = "[pets]"]}

\* a record as a client builds it: fixed fields, and extension members under
\* names with the x- prefix
InitRecords ==
    {[f EXCEPT !.Extensions = e] :
        f \in InitFields,
        e \in {x \in ExtensionMaps : (DOMAIN x.m) \cap WireNames = {}}}

\* texts a client decodes: objects over three keys, and a text that is no object
DataValues(key) ==
    CASE key = "description" -> {JSONString("a key")}
      [] key = "type"        -> {JSONString("apiKey"), JSONNumber("7")}
      [] key = "x-token"     -> {JSONString("abc"), JSONNumber("7")}

DataKeys == {"description", "type", "x-token"}

InputData ==
    {NoData} \cup
    UNION {{[wellFormed |-> TRUE, obj |-> o] :
               o \in {f \in [S -> UNION {DataValues(k) : k \in S}] :
                          \A k \in S : f[k] \in DataValues(k)}} :
              S \in SUBSET DataKeys}

(***************************************************************************)
(* Spec: calls on a document.  CodecSpec: calls on a SecurityScheme.       *)
(***************************************************************************)
DocInit ==
    /\ swagger \in InitDocs
    /\ pre = swagger
    /\ last = NoCall

CodecInit ==
    /\ ss \in InitRecords
    /\ ssPre = ss
    /\ wire = NoWire
    /\ clast = NoCodecCall

Init ==
    /\ DocInit
    /\ ss = ZeroSecurityScheme
    /\ ssPre = ss
    /\ wire = NoWire
    /\ clast = NoCodecCall
    /\ calls = 0

Next ==
    \/ \E path \in PathNames, method \in Methods, operation \in OpPtrs :
          AddOperationCall(path, method, operation)
    \/ \E path \in PathNames, method \in Methods, operation \in OpPtrs :
          SetOperationCall(path, method, operation)
    \/ \E path \in PathNames, method \in Methods :
          GetOperationCall(path, method)
    \/ \E path \in PathNames : OperationsCall(path)

Spec == Init /\ [][Next]_vars

InitCodec ==
    /\ CodecInit
    /\ swagger = ZeroSwagger
    /\ pre = swagger
    /\ last = NoCall
    /\ calls = 0

NextCodec ==
    \/ \E ext \in ExtensionMaps : SetExtensionsCall(ext)
    \/ MarshalJSONCall
    \/ UnmarshalJSONWire
    \/ \E data \in InputData : UnmarshalJSONData(data)

CodecSpec == InitCodec /\ [][NextCodec]_vars

(***************************************************************************)
(* Properties of the verb dispatch table and of AddOperation (Spec).       *)
(***************************************************************************)
\* the struct field of PathItem that holds a supported verb's operation
SlotOf(verb) ==
    CASE verb = "DELETE"  -> "Delete"
      [] verb = "GET"     -> "Get"
      [] verb = "HEAD"    -> "Head"
      [] verb = "OPTIONS" -> "Options"
      [] verb = "PATCH"   -> "Patch"
      [] verb = "POST"    -> "Post"
      [] verb = "PUT"     -> "Put"

\* every field of the PathItem but the slot of verb is as before
OnlySlotChanged(before, after, verb) ==
    \A f \in (DOMAIN before) \ {SlotOf(verb)} : after[f] = before[f]

\* the (path, verb) slots of a document that hold the Operation instance o
SlotsHolding(sw, o) ==
    {s \in (DOMAIN sw.Paths) \X Verbs : sw.Paths[s[1]][SlotOf(s[2])] = o}

Exclusive(sw) ==
    \A o \in OperationInstances : Cardinality(SlotsHolding(sw, o)) <= 1

\* C1: after SetOperation(V, op) with a supported verb V the call has not
\* panicked and GetOperation(V) on the same PathItem returns exactly op,
\* whatever the slot held before and also when op is nil.
C1_SetThenGet ==
    (last.op = "SetOperation" /\ last.method \in Verbs) =>
        /\ ~last.panicked
        /\ GetOperation(swagger.Paths[last.path], last.method)
              = [ret |-> last.operation, panicked |-> FALSE]

\* C1 witness: SetOperation("GET", nil) has cleared a slot that held opA.
C1_Witness ==
    /\ last.op = "SetOperation"
    /\ last.method = "GET"
    /\ last.operation = NilOp
    /\ pre.Paths[last.path].Get = "opA"
    /\ swagger.Paths[last.path].Get = NilOp

\* C2: for every PathItem of the document, the key set of Operations() is
\* exactly the supported verbs whose slot is not nil, each key V maps to
\* GetOperation(V), and a call of Operations() returns that mapping.
C2_OperationsAreTheSetSlots ==
    /\ \A p \in DOMAIN swagger.Paths :
          LET item == swagger.Paths[p]
              all  == Operations(item)
          IN  /\ DOMAIN all = {v \in Verbs : GetOperation(item, v).ret # NilOp}
              /\ \A v \in DOMAIN all : all[v] = GetOperation(item, v).ret
    /\ last.op = "Operations" =>
          LET item == swagger.Paths[last.path]
          IN  /\ DOMAIN last.all = {v \in Verbs : item[SlotOf(v)] # NilOp}
              /\ \A v \in DOMAIN last.all : last.all[v] = item[SlotOf(v)]

\* C2 witness: a verb that was set has been cleared with nil and is no key,
\* while another verb of the same PathItem still is one.
C2_Witness ==
    /\ last.op = "SetOperation"
    /\ last.method \in Verbs
    /\ last.operation = NilOp
    /\ pre.Paths[last.path][SlotOf(last.method)] # NilOp
    /\ last.method \notin DOMAIN Operations(swagger.Paths[last.path])
    /\ DOMAIN Operations(swagger.Paths[last.path]) # {}

\* C3: SetOperation(V, op) with a supported verb changes nothing but the
\* slot of V (the other six slots, Ref and Parameters of that PathItem and
\* every other entry are kept); AddOperation(path, V, op) keeps every other
\* path's entry and, when path has an entry, keeps that entry's other slots,
\* Ref and Parameters.
C3_SlotsIndependent ==
    /\ (last.op = "SetOperation" /\ last.method \in Verbs) =>
          /\ DOMAIN swagger.Paths = DOMAIN pre.Paths
          /\ \A p \in (DOMAIN pre.Paths) \ {last.path} :
                swagger.Paths[p] = pre.Paths[p]
          /\ OnlySlotChanged(pre.Paths[last.path], swagger.Paths[last.path],
                             last.method)
    /\ (last.op = "AddOperation" /\ last.method \in Verbs) =>
          /\ DOMAIN swagger.Paths = (DOMAIN pre.Paths) \cup {last.path}
          /\ \A p \in (DOMAIN pre.Paths) \ {last.path} :
                swagger.Paths[p] = pre.Paths[p]
          /\ last.path \in DOMAIN pre.Paths =>
                OnlySlotChanged(pre.Paths[last.path], swagger.Paths[last.path],
                                last.method)

\* C3 witness: AddOperation has stored an operation in an entry that already
\* had a reference, parameters and another operation, beside another entry.
C3_Witness ==
    /\ last.op = "AddOperation"
    /\ last.method = "PUT"
    /\ last.operation = "opB"
    /\ last.path \in DOMAIN pre.Paths
    /\ pre.Paths[last.path].Ref # ""
    /\ pre.Paths[last.path].Parameters # <<>>
    /\ pre.Paths[last.path].Get = "opA"
    /\ swagger.Paths[last.path].Put = "opB"
    /\ DOMAIN pre.Paths = PathNames

\* C4: after AddOperation(path, V, op) with a supported verb the document
\* has an entry for path whose slot V holds op (whatever it held before, and
\* also when Paths was nil), and the same call once more changes nothing.
C4_AddOverwrites ==
    (last.op = "AddOperation" /\ last.method \in Verbs) =>
        /\ ~last.panicked
        /\ ~swagger.PathsNil
        /\ last.path \in DOMAIN swagger.Paths
        /\ swagger.Paths[last.path][SlotOf(last.method)] = last.operation
        /\ AddOperation(swagger, last.path, last.method, last.operation)
              = [swagger |-> swagger, panicked |-> FALSE]

\* C4 witness: AddOperation(path, "GET", opB) on a slot that held opA.
C4_Witness ==
    /\ last.op = "AddOperation"
    /\ last.method = "GET"
    /\ last.operation = "opB"
    /\ last.path \in DOMAIN pre.Paths
    /\ pre.Paths[last.path].Get = "opA"
    /\ swagger.Paths[last.path].Get = "opB"

\* C5: GetOperation and SetOperation with a method outside the seven
\* supported verbs panic, return nothing and leave the document as it was.
C5_UnsupportedVerbPanics ==
    (last.op \in {"GetOperation", "SetOperation"} /\ last.method \notin Verbs) =>
        /\ last.panicked
        /\ last.ret = NilOp
        /\ swagger = pre

\* C5 witness: SetOperation("get", opB) has panicked on a PathItem whose Get
\* slot holds opA.
C5_Witness ==
    /\ last.op = "SetOperation"
    /\ last.method = "get"
    /\ last.operation = "opB"
    /\ last.panicked
    /\ swagger.Paths[last.path].Get = "opA"

\* C6 as claimed: in every reachable state no Operation instance is stored
\* in more than one (path, verb) slot of the document.
C6_ExclusiveOwner == Exclusive(swagger)

\* C6 amended: a call stores its Operation in the slot it names and in no
\* other, so when no instance is stored twice before a SetOperation or
\* AddOperation call and the instance passed is nil or not stored in a
\* different slot, no instance is stored twice after the call.
C6_SharedOnlyByCaller ==
    ( /\ last.op \in {"SetOperation", "AddOperation"}
      /\ Exclusive(pre)
      /\ \/ last.operation = NilOp
         \/ SlotsHolding(pre, last.operation) \subseteq {<<last.path, last.method>>} )
    => Exclusive(swagger)

\* C6 witness: AddOperation has attached opA, held nowhere before, to one
\* slot of a document that also holds opB.
C6_Witness ==
    /\ last.op = "AddOperation"
    /\ ~last.panicked
    /\ last.operation = "opA"
    /\ SlotsHolding(pre, "opA") = {}
    /\ SlotsHolding(swagger, "opA") = {<<last.path, last.method>>}
    /\ SlotsHolding(swagger, "opB") # {}

\* C10: AddOperation with a method outside the supported verbs panics after
\* Paths and the entry for path are ensured: Paths is not nil and holds path,
\* every entry that existed is unchanged, and an entry created by the call
\* has all seven slots nil.
C10_FaultAfterEnsure ==
    (last.op = "AddOperation" /\ last.method \notin Verbs) =>
        /\ last.panicked
        /\ ~swagger.PathsNil
        /\ DOMAIN swagger.Paths = (DOMAIN pre.Paths) \cup {last.path}
        /\ \A p \in DOMAIN pre.Paths : swagger.Paths[p] = pre.Paths[p]
        /\ last.path \notin DOMAIN pre.Paths =>
              swagger.Paths[last.path] = ZeroPathItem

\* C10 witness: the fault was raised on a document whose Paths was nil, and
\* the document now has an entry for path.
C10_Witness ==
    /\ last.op = "AddOperation"
    /\ last.method = "TRACE"
    /\ last.panicked
    /\ pre.PathsNil
    /\ ~swagger.PathsNil
    /\ swagger.Paths[last.path] = ZeroPathItem

(***************************************************************************)
(* Properties of EncodeWith and DecodeWith (CodecSpec).                    *)
(***************************************************************************)
\* no extension member of the record is named like a fixed field
NoCollision(r) == (DOMAIN r.Extensions.m) \cap WireNames = {}

\* an extension mapping as a set of key/value pairs (the nil map has none)
Pairs(ext) == {<<k, ext.m[k]>> : k \in DOMAIN ext.m}

\* every member was written once, and no two members share a key
NoKeyTwice(members) ==
    \A e \in BagToSet(members) :
        /\ CopiesIn(e, members) = 1
        /\ \A e2 \in BagToSet(members) : e2[1] = e[1] => e2 = e

\* C7: when a record whose extension names collide with no fixed wire name
\* was encoded, decoding the result (into the same or a new record) succeeds
\* and yields an extension mapping with the same key/value pairs.
C7_ExtensionsRoundTrip ==
    (clast.op = "UnmarshalJSON" /\ clast.fromWire /\ NoCollision(wire.of)) =>
        /\ ~clast.err
        /\ Pairs(ss.Extensions) = Pairs(wire.of.Extensions)

\* C7 witness: a record with two extension members and three fixed fields
\* set was encoded and decoded into a new record.
C7_Witness ==
    /\ clast.op = "UnmarshalJSON"
    /\ clast.fromWire
    /\ ~clast.err
    /\ DOMAIN wire.of.Extensions.m = {"x-token", "x-limit"}
    /\ wire.of.Type = "apiKey"
    /\ ssPre = ZeroSecurityScheme
    /\ DOMAIN ss.Extensions.m = {"x-token", "x-limit"}

\* C8 as claimed: in every reachable state of the record no extension key
\* equals the wire name of a fixed field.
C8_NoCollisionEver == NoCollision(ss)

\* C8 amended: after a successful decode no extension key equals the wire
\* name of a fixed field (whatever the record's mapping held before); and
\* for every record without such a key, the object Encode produces holds
\* exactly the extension keys and the wire names of the non-empty fixed
\* fields, each key once.
C8_DecodedNoCollision ==
    /\ (clast.op = "UnmarshalJSON" /\ ~clast.err) => NoCollision(ss)
    /\ NoCollision(ss) =>
          LET r == MarshalJSON(ss)
          IN  ~r.err =>
                /\ NoKeyTwice(r.members)
                /\ KeysOf(r.members) =
                      (DOMAIN ss.Extensions.m) \cup
                      {FixedFields[i].wire : i \in {j \in DOMAIN FixedFields :
                                                       ss[FixedFields[j].name] # ""}}

\* C8 witness: a record whose mapping held the key "type" has decoded an
\* object with the members "type" and "x-token"; only "x-token" is an
\* extension now.
C8_Witness ==
    /\ clast.op = "UnmarshalJSON"
    /\ ~clast.err
    /\ "type" \in DOMAIN ssPre.Extensions.m
    /\ DOMAIN clast.data.obj = {"type", "x-token"}
    /\ DOMAIN ss.Extensions.m = {"x-token"}
    /\ ss.Type = "apiKey"

\* C9: when decoding the fixed fields reports an error, UnmarshalJSON
\* reports an error; whenever it reports an error the extension mapping is
\* the one the record had before the call; and when it reports none the
\* mapping is a non-nil map holding exactly the decoder's leftover members.
C9_DecodeAllOrNothing ==
    clast.op = "UnmarshalJSON" =>
        LET d == DecodeStructFieldsAndExtensions(
                     NewObjectDecoder(clast.data.obj), ssPre)
        IN  /\ (clast.data.wellFormed /\ d.err) => clast.err
            /\ clast.err => ss.Extensions = ssPre.Extensions
            /\ ~clast.err =>
                  /\ ~d.err
                  /\ ~ss.Extensions.isNil
                  /\ ss.Extensions.m = DecodeExtensionMap(d.decoder)

\* C9 witness: a record with an extension member has failed to decode an
\* object whose "type" is a number and that holds another member.
C9_Witness ==
    /\ clast.op = "UnmarshalJSON"
    /\ clast.err
    /\ clast.data.wellFormed
    /\ DOMAIN clast.data.obj = {"description", "type", "x-token"}
    /\ clast.data.obj["type"].json = "number"
    /\ DOMAIN ssPre.Extensions.m = {"x-limit"}
    /\ ss.Extensions = ssPre.Extensions

====
